---- MODULE Spec2Model ----
(***************************************************************************)
(* Model of the MPC controller: the websocket message handler of main.cpp  *)
(* (preprocessing, latency compensation, reply) and MPC::Solve with        *)
(* FG_eval of MPC.cpp (decision-vector layout, bounds, constraint rows,    *)
(* extraction of the result).                                              *)
(*                                                                         *)
(* Numbers.  A double is a fixed-point integer in units of 1e-6 (micro);   *)
(* speeds read from telemetry are whole units, times are milliseconds,     *)
(* sines and cosines are in units of 1e-3.  The bound literals of          *)
(* MPC::Solve are decimals [m, e] = m * 10^e, because 1.0e19 has no        *)
(* fixed-point form.                                                       *)
(***************************************************************************)
EXTENDS Integers, Sequences, FiniteSets, TLC

\* ------------------------------------------------------------------ bounds
\* Length of the inbound message buffer of the event loop.
MaxInbound == 1
\* Largest number of waypoints in a telemetry event.
MaxPts == 4

\* ------------------------------------------------------- MPC.cpp constants
N == 15
dt == 150

x_start == 0
y_start == x_start + N
psi_start == y_start + N
v_start == psi_start + N
cte_start == v_start + N
epsi_start == cte_start + N
delta_start == epsi_start + N
a_start_off_by_one == delta_start + N
a_start == delta_start + N - 1

Lf == 267

n_vars == N * 6 + (N - 1) * 2
n_constraints == N * 6

Comps == <<"x", "y", "psi", "v", "cte", "epsi">>
Quantities == {"x", "y", "psi", "v", "cte", "epsi", "delta", "a"}

\* Start offset of a quantity's block in the decision vector.
Start(q) ==
    CASE q = "x" -> x_start
      [] q = "y" -> y_start
      [] q = "psi" -> psi_start
      [] q = "v" -> v_start
      [] q = "cte" -> cte_start
      [] q = "epsi" -> epsi_start
      [] q = "delta" -> delta_start
      [] q = "a" -> a_start

\* Number of values of a quantity (the "N values" / "N-1 values" comments).
BlockLen(q) == IF q \in {"delta", "a"} THEN N - 1 ELSE N

Block(q) == Start(q) .. (Start(q) + BlockLen(q) - 1)

\* ------------------------------------------------------- decimal literals
Dec(m, e) == [m |-> m, e |-> e, set |-> TRUE]
\* An element of a vector that was allocated and never assigned.
Indet == [m |-> 0, e |-> 0, set |-> FALSE]
Micro(x) == Dec(x, -6)

RECURSIVE Pow10(_)
Pow10(k) == IF k = 0 THEN 1 ELSE 10 * Pow10(k - 1)

\* a <= b on decimals.  Mantissas are below 10^9 in magnitude, so a
\* non-zero number whose exponent is more than 9 above the other's
\* decides the comparison by its sign.
DecLeq(a, b) ==
    IF a.m = 0 THEN b.m >= 0
    ELSE IF b.m = 0 THEN a.m <= 0
    ELSE IF a.e = b.e THEN a.m <= b.m
    ELSE IF a.e > b.e
         THEN IF a.e - b.e > 9 THEN a.m < 0
              ELSE a.m * Pow10(a.e - b.e) <= b.m
         ELSE IF b.e - a.e > 9 THEN b.m > 0
              ELSE a.m <= b.m * Pow10(b.e - a.e)

DecNeg(a) == Dec(0 - a.m, a.e)

\* ----------------------------------------------------------- math library
Abs(x) == IF x < 0 THEN 0 - x ELSE x

\* sin, cos of an angle in micro-radians, in units of 1e-3.
SinAbs(u) ==
    CASE u = 0 -> 0
      [] u = 100000 -> 100
      [] u = 436332 -> 423
      [] u = 500000 -> 479
CosAbs(u) ==
    CASE u = 0 -> 1000
      [] u = 100000 -> 995
      [] u = 436332 -> 906
      [] u = 500000 -> 878
sin(u) == IF u < 0 THEN 0 - SinAbs(0 - u) ELSE SinAbs(u)
cos(u) == CosAbs(Abs(u))

\* atan of a slope in micro units, in micro-radians.
atan(u) ==
    CASE u = 0 -> 0
      [] u = 100000 -> 99669

\* ------------------------------------------------------ FG_eval::operator()
Tag(kind, c, t) == [kind |-> kind, c |-> c, t |-> t]
Unassigned == Tag("unassigned", "none", 0)
\* fg[0]: the cost.
CostTag == Tag("cost", "none", 0)
\* fg row holding vars[Start(c)]: the state at time 0.
PinTag(c) == Tag("pin", c, 0)
\* fg row holding the residual that ties component c at step t1 to step t1-1.
DynTag(c, t1) == Tag("dyn", c, t1)

W(i, tag) == [i |-> i, tag |-> tag]
R(i, q) == [i |-> i, q |-> q]
\* A set of reads, as the set of indices read for each quantity.
ByQuantity(rs) ==
    [q \in Quantities |-> { r.i : r \in { s \in rs : s.q = q } }]
NoReads == [q \in Quantities |-> {}]

\* Reads of vars by the three cost loops.
CostReads ==
    UNION { {R(cte_start + t, "cte"), R(epsi_start + t, "epsi"), R(v_start + t, "v")}
            : t \in 0 .. (N - 1) }
    \cup UNION { {R(delta_start + t, "delta"), R(a_start + t, "a")}
                 : t \in 0 .. (N - 2) }
    \cup UNION { {R(delta_start + t + 1, "delta"), R(delta_start + t, "delta"),
                  R(a_start + t + 1, "a"), R(a_start + t, "a")}
                 : t \in 0 .. (N - 3) }

\* "The state at time 0".
PinWritesShifted ==
    [k \in 1 .. 6 |-> W(Start(Comps[k]), PinTag(Comps[k]))]
PinWrites ==
    [k \in 1 .. 6 |-> W(Start(Comps[k]) + 1, PinTag(Comps[k]))]

PinReads == { R(Start(Comps[k]), Comps[k]) : k \in 1 .. 6 }

\* Steps t of the loop "The rest of the constraints".
DynSteps == 0 .. (N - 3)

\* One iteration of the loop: its six writes to fg.
DynWrites(t) ==
    [k \in 1 .. 6 |-> W(Start(Comps[k]) + t + 2, DynTag(Comps[k], t + 1))]

\* One iteration of the loop: its reads of vars.
DynReads(t) ==
    { R(Start(Comps[k]) + t, Comps[k]) : k \in 1 .. 6 }
    \cup { R(Start(Comps[k]) + t + 1, Comps[k]) : k \in 1 .. 6 }
    \cup { R(delta_start + t, "delta"), R(a_start + t, "a") }

\* The writes of the whole loop, in program order.
DynLoop ==
    [k \in 1 .. (6 * Cardinality(DynSteps)) |->
        DynWrites((k - 1) \div 6)[((k - 1) % 6) + 1]]

\* Assignments ws to the vector f in program order: an element holds the
\* value of the last write to its index.
ApplyWrites(f, ws) ==
    [i \in DOMAIN f |->
        LET hits == { k \in 1 .. Len(ws) : ws[k].i = i } IN
          IF hits = {} THEN f[i]
          ELSE ws[CHOOSE k \in hits : \A h \in hits : h <= k].tag]

\* The assignments to fg of one evaluation, in program order, and the fg
\* vector after them: index 0 the cost, index k+1 row k.
FG_writes == <<W(0, CostTag)>> \o PinWrites \o DynLoop
FG_eval_fg ==
    ApplyWrites([i \in 0 .. n_constraints |-> Unassigned], FG_writes)

\* The indices of vars one evaluation reads, each with the quantity read.
FG_eval_reads ==
    CostReads \cup PinReads \cup UNION { DynReads(t) : t \in DynSteps }

\* Kinematic update of FG_eval's residuals: the value the state at t+1 is
\* compared with, from state (x0, y0, psi0, v0), controls (delta0, a0) and a
\* step of ms milliseconds.  v0 is in whole units, angles in micro-radians.
KinX(x0, v0, psi0, ms) == x0 + v0 * cos(psi0) * ms
KinY(y0, v0, psi0, ms) == y0 + v0 * sin(psi0) * ms
KinPsi(psi0, v0, delta0, ms) == psi0 + (((v0 * delta0) \div Lf) * ms) \div 10
KinV(v0, a0, ms) == v0 * 1000000 + (a0 * ms) \div 1000

\* ---------------------------------------------------------------- MPC::Solve
VarIdx == 0 .. (n_vars - 1)
RowIdx == 0 .. (n_constraints - 1)

\* Index ranges of the three loops that set the variable bounds.
StateLoop == 0 .. (delta_start - 1)
DeltaLoopShort == delta_start .. (a_start - 2)
DeltaLoop == delta_start .. (a_start - 1)
ALoop == a_start .. (n_vars - 1)

max_steer == Dec(436332, -6)
max_accel == Dec(1, 0)
no_bound == Dec(1, 19)

\* vars_lowerbound / vars_upperbound after the three loops, in program
\* order (a later loop overwrites an earlier one).
VarsUpperBound ==
    [i \in VarIdx |->
        IF i \in ALoop THEN max_accel
        ELSE IF i \in DeltaLoop THEN max_steer
        ELSE IF i \in StateLoop THEN no_bound
        ELSE Indet]
VarsLowerBound ==
    [i \in VarIdx |->
        IF i \in ALoop THEN DecNeg(max_accel)
        ELSE IF i \in DeltaLoop THEN DecNeg(max_steer)
        ELSE IF i \in StateLoop THEN DecNeg(no_bound)
        ELSE Indet]

\* "The bounds are fixed at starting point": the six assignments, as
\* (row, value) writes, for the input state st.
PinBoundWrites(st) ==
    [k \in 1 .. 6 |-> W(Start(Comps[k]), st[Comps[k]])]

\* constraints_lowerbound (and _upperbound, set by the same statements):
\* all rows 0, then the six assignments.
ConstraintBounds(st) ==
    ApplyWrites([i \in RowIdx |-> 0], PinBoundWrites(st))

\* --------------------------------------------------- CppAD::ipopt::solve
\* x is inside [lo, hi]; an element that was never assigned bounds nothing.
InBox(x, lo, hi) ==
    /\ (~lo.set \/ DecLeq(lo, Micro(x)))
    /\ (~hi.set \/ DecLeq(Micro(x), hi))

\* Values the solver may give a variable whose box is narrow.
Cands == {0 - 436332, 100000, 1500000}
\* Base of the values the solver gives a variable whose box is wide.
Seeds == {2000000}
FreeVal(seed, i) == seed + 1000 * (i + 1)

\* The rows of fg that hold a variable itself, as <<variable, row>>.
Pins(fgv) ==
    { <<Start(fgv[k + 1].c), k>> : k \in { r \in RowIdx : fgv[r + 1].kind = "pin" } }

\* The variables whose box holds the wide value, and the distinct boxes of
\* the others.
Wide(lb, ub, seed) ==
    { i \in VarIdx : InBox(FreeVal(seed, i), lb[i], ub[i]) }
NarrowBoxes(lb, ub, wide) ==
    { <<lb[i], ub[i]>> : i \in VarIdx \ wide }

\* The values val gives the narrow boxes lie inside them.
InBoxes(val) ==
    \A b \in DOMAIN val : InBox(val[b], b[1], b[2])

\* A vector inside the variable bounds: wide variables take distinct
\* values, the variables of one narrow box share the value val gives it.
BoxPoint(lb, ub, seed, wide, val) ==
    [i \in VarIdx |->
        IF i \in wide THEN FreeVal(seed, i) ELSE val[<<lb[i], ub[i]>>]]

\* The point bp moved onto the rows of fg that hold a variable itself
\* (gl <= x_i <= gu on such a row).
PinnedPoint(bp, gl, pins) ==
    [i \in VarIdx |->
        IF \E p \in pins : p[1] = i
          THEN gl[(CHOOSE p \in pins : p[1] = i)[2]]
          ELSE bp[i]]

Feasible(x, lb, ub, gl, gu, pins) ==
    \A p \in pins :
        /\ InBox(x[p[1]], lb[p[1]], ub[p[1]])
        /\ gl[p[2]] <= x[p[1]] /\ x[p[1]] <= gu[p[2]]

\* The solutions solve() may return with the given status.  Any return is
\* inside the variable bounds; a successful return is feasible.
Solutions(status, lb, ub, gl, gu, fgv) ==
    LET pins == Pins(fgv)
        points ==
          UNION { LET wide == Wide(lb, ub, seed) IN
                    { BoxPoint(lb, ub, seed, wide, val) :
                        val \in { v \in [NarrowBoxes(lb, ub, wide) -> Cands] :
                                    InBoxes(v) } }
                  : seed \in Seeds }
    IN IF status = "success"
         THEN { x \in { PinnedPoint(bp, gl, pins) : bp \in points } :
                  Feasible(x, lb, ub, gl, gu, pins) }
         ELSE points

Statuses == {"success", "maximum_iterations_exceeded"}

\* ------------------------------------------------- MPC::Solve: the result
\* The loop that appends the predicted positions: iteration i pushes
\* solution.x[x_start + i], then solution.x[y_start + i].
PushPairsSwapped(x) ==
    [k \in 1 .. (2 * (N - 1)) |->
        IF k % 2 = 1 THEN x[y_start + (k - 1) \div 2]
        ELSE x[x_start + (k - 1) \div 2]]
PushPairs(x) ==
    [k \in 1 .. (2 * (N - 1)) |->
        IF k % 2 = 1 THEN x[x_start + (k - 1) \div 2]
        ELSE x[y_start + (k - 1) \div 2]]

SolveResult(x) == <<x[delta_start], x[a_start]>> \o PushPairs(x)

\* The indices of solution.x that building the result reads.
SolveReads ==
    {R(delta_start, "delta"), R(a_start, "a")}
    \cup UNION { {R(x_start + i, "x"), R(y_start + i, "y")} : i \in 0 .. (N - 2) }

\* ------------------------------------------------------------------ main.cpp
VARIABLES
    ndebug,       \* the build: TRUE when assert() is compiled out
    inbound,      \* messages received and not yet handed to the handler
    pc,           \* position of the handler: idle, solving, sleep, aborted
    cur,          \* kind of the message being (or last) handled
    wire,         \* messages sent while handling cur
    tel,          \* the telemetry fields read from j[1]
    delta,        \* the local delta, after "delta *= -1"
    coeffs,       \* result of polyfit
    state,        \* the state vector handed to MPC::Solve
    vars_lowerbound, vars_upperbound,
    constraints_lowerbound, constraints_upperbound,
    fg,           \* the vector FG_eval fills
    reads,        \* indices of vars / solution.x read, by the quantity meant
    active,       \* number of calls of ipopt::solve in progress
    solution,     \* solve_result: status and x
    result,       \* the vector MPC::Solve returns
    msgJson,      \* the reply being built
    last_cmd,     \* steering_angle of the last "steer" message sent
    last_delta0   \* solution.x[delta_start] of the solve behind last_cmd

vars == <<ndebug, inbound, pc, cur, wire, tel, delta, coeffs, state,
          vars_lowerbound, vars_upperbound, constraints_lowerbound,
          constraints_upperbound, fg, reads, active, solution, result,
          msgJson, last_cmd, last_delta0>>

\* What the handler tests of a message: the "42" prefix, the size, whether
\* hasData finds "null" or the brackets, and the event name.
Kinds == {"other", "bare42", "null", "event", "telemetry"}
Is42(k) == k # "other"
SizeOver2(k) == k # "bare42"
FoundNull(k) == k = "null"
FoundBrackets(k) == k \in {"null", "event", "telemetry"}

hasData(k) ==
    IF FoundNull(k) THEN ""
    ELSE IF FoundBrackets(k) THEN k
    ELSE ""

\* Telemetry inputs.
order == 3
Speeds == {10, 80}
SteerFeed == {0, 100000}
Throttles == {500000}
Paths == { <<0, 0, 0, 0>>, <<500000, 100000, 10000, 1000>> }
PtsCounts == 3 .. MaxPts

dt_lat == 100

\* polyeval at a whole-unit x: sum of coeffs[i] * x^i (coeffs is 0-based
\* in the source, 1-based here).
RECURSIVE PowInt(_, _)
PowInt(x, i) == IF i = 0 THEN 1 ELSE x * PowInt(x, i - 1)
RECURSIVE PolySum(_, _, _)
PolySum(c, x, i) ==
    IF i >= Len(c) THEN 0 ELSE c[i + 1] * PowInt(x, i) + PolySum(c, x, i + 1)
polyeval(c, x) == PolySum(c, x, 0)

\* The second assert of polyfit.
PolyfitAssert(npts, ord) == ord >= 1 /\ ord <= npts - 1

\* The coefficient vectors polyfit may return for npts samples of the path:
\* the path itself when the fit is determined, any vector when it is
\* under-determined (fewer rows than columns in A).
polyfit(npts, path, ord) ==
    IF npts >= ord + 1 THEN {path} ELSE Paths

NoTel == [npts |-> 0, v |-> 0, steering_angle |-> 0, throttle |-> 0,
          path |-> <<0, 0, 0, 0>>]
NoState == [c \in {Comps[k] : k \in 1 .. 6} |-> 0]
NoSolution == [status |-> "none", x |-> << >>, for |-> NoState]
NoMsg == [event |-> "none", steering_angle |-> 0, throttle |-> 0,
          next_x |-> << >>, next_y |-> << >>, mpc_x |-> << >>, mpc_y |-> << >>]

\* "Latency adjustment": the state vector from speed v, the local delta,
\* throttle a and the fitted coefficients c.
Compensate(v, d, a, c) ==
    [x |-> 0 + v * cos(d) * dt_lat,
     y |-> 0 + v * sin(d) * dt_lat,
     psi |-> 0 + (((v * d) \div Lf) * dt_lat) \div 10,
     v |-> v * 1000000 + (a * dt_lat) \div 1000,
     cte |-> polyeval(c, 0) + v * sin(d) * dt_lat,
     epsi |-> atan(c[2]) + (((v * d) \div Lf) * dt_lat) \div 10]

\* The sign adjustments at the boundary.
NegateIn(steering_angle) == steering_angle * (0 - 1)
NegateOutId(d0) == d0
NegateOut(d0) == 0 - d0

\* The loop that splits vars[2..] into mpc_x_vals (even i) and mpc_y_vals
\* (odd i); i is the 0-based index of the source.
Deinterleave(r, from, parity) ==
    LET first == IF from % 2 = parity THEN from ELSE from + 1
        len == Len(r)
        count == IF len > first THEN (len - first + 1) \div 2 ELSE 0
    IN [j \in 1 .. count |-> r[first + 2 * (j - 1) + 1]]

npoints == 10
dn == 5
next_x_vals == [i \in 1 .. (npoints + 1) |-> dn * i]
next_y_vals(c) == [i \in 1 .. (npoints + 1) |-> polyeval(c, dn * i)]

Init ==
    /\ ndebug \in BOOLEAN
    /\ inbound = << >>
    /\ pc = "idle"
    /\ cur = "none"
    /\ wire = << >>
    /\ tel = NoTel
    /\ delta = 0
    /\ coeffs = <<0, 0, 0, 0>>
    /\ state = NoState
    /\ vars_lowerbound = << >>
    /\ vars_upperbound = << >>
    /\ constraints_lowerbound = << >>
    /\ constraints_upperbound = << >>
    /\ fg = << >>
    /\ reads = NoReads
    /\ active = 0
    /\ solution = NoSolution
    /\ result = << >>
    /\ msgJson = NoMsg
    /\ last_cmd = 0
    /\ last_delta0 = 0

Locals == <<tel, delta, coeffs, state, vars_lowerbound, vars_upperbound,
            constraints_lowerbound, constraints_upperbound, fg, reads,
            solution, result, msgJson>>

\* A message arrives from the network while the process is alive.
Arrive(k) ==
    /\ pc # "aborted"
    /\ Len(inbound) < MaxInbound
    /\ inbound' = Append(inbound, k)
    /\ UNCHANGED <<ndebug, pc, cur, wire, active, last_cmd, last_delta0>>
    /\ UNCHANGED Locals

\* The event loop calls the handler only when no handler is running.
LoopFree == pc = "idle"

\* The handler on a message that is not a telemetry event: it runs to its
\* end in one step.
OnOther ==
    /\ LoopFree
    /\ inbound # << >>
    /\ LET k == Head(inbound) IN
         /\ ~(SizeOver2(k) /\ Is42(k) /\ hasData(k) = "telemetry")
         /\ cur' = k
         /\ wire' = IF SizeOver2(k) /\ Is42(k) /\ hasData(k) = ""
                      THEN <<"manual">> ELSE << >>
    /\ inbound' = Tail(inbound)
    /\ pc' = "idle"
    /\ tel' = NoTel /\ delta' = 0 /\ coeffs' = <<0, 0, 0, 0>> /\ state' = NoState
    /\ vars_lowerbound' = << >> /\ vars_upperbound' = << >>
    /\ constraints_lowerbound' = << >> /\ constraints_upperbound' = << >>
    /\ fg' = << >> /\ reads' = NoReads /\ solution' = NoSolution /\ result' = << >>
    /\ msgJson' = NoMsg
    /\ UNCHANGED <<ndebug, active, last_cmd, last_delta0>>

\* The fields a telemetry event may carry; the consumer may echo the last
\* command as steering_angle.
Telemetries ==
    [npts : PtsCounts, v : Speeds, steering_angle : SteerFeed \cup {last_cmd},
     throttle : Throttles, path : Paths]

\* The handler on a telemetry event whose waypoints fail polyfit's assert,
\* in a build with assert(): the process aborts.
OnTelemetryAbort ==
    /\ LoopFree
    /\ inbound # << >>
    /\ Head(inbound) = "telemetry"
    /\ ~ndebug
    /\ \E t \in Telemetries :
         /\ ~PolyfitAssert(t.npts, order)
         /\ tel' = t
         /\ delta' = NegateIn(t.steering_angle)
    /\ inbound' = Tail(inbound)
    /\ cur' = "telemetry"
    /\ wire' = << >>
    /\ pc' = "aborted"
    /\ coeffs' = <<0, 0, 0, 0>> /\ state' = NoState
    /\ vars_lowerbound' = << >> /\ vars_upperbound' = << >>
    /\ constraints_lowerbound' = << >> /\ constraints_upperbound' = << >>
    /\ fg' = << >> /\ reads' = NoReads /\ solution' = NoSolution /\ result' = << >>
    /\ msgJson' = NoMsg
    /\ UNCHANGED <<ndebug, active, last_cmd, last_delta0>>

\* The handler on a telemetry event, from the parse to the call of
\* ipopt::solve inside MPC::Solve.
OnTelemetry ==
    /\ LoopFree
    /\ inbound # << >>
    /\ Head(inbound) = "telemetry"
    /\ \E t \in Telemetries :
         /\ ndebug \/ PolyfitAssert(t.npts, order)
         /\ \E c \in polyfit(t.npts, t.path, order) :
              LET d == NegateIn(t.steering_angle)
                  st == Compensate(t.v, d, t.throttle, c)
              IN /\ tel' = t
                 /\ delta' = d
                 /\ coeffs' = c
                 /\ state' = st
                 /\ constraints_lowerbound' = ConstraintBounds(st)
                 /\ constraints_upperbound' = ConstraintBounds(st)
    /\ vars_lowerbound' = VarsLowerBound
    /\ vars_upperbound' = VarsUpperBound
    /\ inbound' = Tail(inbound)
    /\ cur' = "telemetry"
    /\ wire' = << >>
    /\ active' = active + 1
    /\ pc' = "solving"
    /\ fg' = << >> /\ reads' = NoReads /\ solution' = NoSolution /\ result' = << >>
    /\ msgJson' = NoMsg
    /\ UNCHANGED <<ndebug, last_cmd, last_delta0>>

\* ipopt::solve returns; MPC::Solve builds its result and returns; the
\* handler builds the reply and goes to sleep for the latency.
SolveReturn ==
    /\ pc = "solving"
    /\ fg' = FG_eval_fg
    /\ reads' = ByQuantity(FG_eval_reads \cup SolveReads)
    /\ active' = active - 1
    /\ pc' = "sleep"
    /\ \E status \in Statuses :
         \E x \in Solutions(status, vars_lowerbound, vars_upperbound,
                            constraints_lowerbound, constraints_upperbound,
                            fg') :
           /\ solution' = [status |-> status, x |-> x, for |-> state]
           /\ result' = SolveResult(x)
    /\ LET r == result' IN
         msgJson' = [event |-> "steer",
                     steering_angle |-> NegateOut(r[1]),
                     throttle |-> r[2],
                     next_x |-> next_x_vals,
                     next_y |-> next_y_vals(coeffs),
                     mpc_x |-> Deinterleave(r, 2, 0),
                     mpc_y |-> Deinterleave(r, 2, 1)]
    /\ UNCHANGED <<ndebug, inbound, cur, wire, tel, delta, coeffs, state,
                   vars_lowerbound, vars_upperbound, constraints_lowerbound,
                   constraints_upperbound, last_cmd, last_delta0>>

\* The sleep ends, the reply is sent and the handler returns; its locals
\* end with it.
Send ==
    /\ pc = "sleep"
    /\ wire' = Append(wire, msgJson.event)
    /\ last_cmd' = msgJson.steering_angle
    /\ last_delta0' = solution.x[delta_start]
    /\ pc' = "idle"
    /\ tel' = NoTel /\ delta' = 0 /\ coeffs' = <<0, 0, 0, 0>> /\ state' = NoState
    /\ vars_lowerbound' = << >> /\ vars_upperbound' = << >>
    /\ constraints_lowerbound' = << >> /\ constraints_upperbound' = << >>
    /\ fg' = << >> /\ reads' = NoReads /\ solution' = NoSolution /\ result' = << >>
    /\ msgJson' = NoMsg
    /\ UNCHANGED <<ndebug, inbound, cur, active>>

Next ==
    \/ \E k \in Kinds : Arrive(k)
    \/ OnOther
    \/ OnTelemetryAbort
    \/ OnTelemetry
    \/ SolveReturn
    \/ Send

Spec == Init /\ [][Next]_vars

\* ---------------------------------------------------------------- claims
InSolve == pc \in {"solving", "sleep"}
Returned == pc = "sleep"

\* C1: after an evaluation of FG_eval every constraint row is assigned: the
\* six rows of the state at time 0, and for every step t = 0..N-2 and every
\* component the row of the residual tying step t+1 to step t.
C1_AllRowsAssigned ==
    Returned =>
        /\ \A k \in 1 .. 6 : fg[Start(Comps[k]) + 1] = PinTag(Comps[k])
        /\ \A t \in 0 .. (N - 2) : \A k \in 1 .. 6 :
               fg[Start(Comps[k]) + t + 2] = DynTag(Comps[k], t + 1)
        /\ \A r \in RowIdx : fg[r + 1].kind # "unassigned"

\* C2: a reply whose steering and throttle are taken from solution.x is
\* only built when the solve status is success.
C2_SentOnlyOnSuccess ==
    (/\ Returned
     /\ msgJson.event = "steer"
     /\ msgJson.steering_angle = 0 - solution.x[delta_start]
     /\ msgJson.throttle = solution.x[a_start])
    => solution.status = "success"

\* C3: a telemetry event with fewer than order+1 = 4 waypoints never
\* reaches MPC::Solve and never stops the loop: its cycle is skipped.
C3_InsufficientWaypointsSkipped ==
    (cur = "telemetry" /\ tel.npts < 4) => pc \notin {"solving", "sleep", "aborted"}

\* C4: every index of the decision vector has both bounds; states are
\* bounded by +-1e19, steering by +-0.436332, acceleration by +-1; every
\* control element of a returned solution, and the returned (delta_0, a_0),
\* is within its actuator bound.
C4_ControlsWithinBounds ==
    /\ InSolve =>
         /\ DOMAIN vars_lowerbound = 0 .. (6 * N + 2 * (N - 1) - 1)
         /\ DOMAIN vars_upperbound = DOMAIN vars_lowerbound
         /\ \A i \in DOMAIN vars_lowerbound :
              /\ vars_lowerbound[i].set /\ vars_upperbound[i].set
              /\ i < delta_start =>
                   /\ vars_lowerbound[i] = Dec(0 - 1, 19)
                   /\ vars_upperbound[i] = Dec(1, 19)
              /\ (delta_start <= i /\ i < a_start) =>
                   /\ vars_lowerbound[i] = Dec(0 - 436332, 0 - 6)
                   /\ vars_upperbound[i] = Dec(436332, 0 - 6)
              /\ a_start <= i =>
                   /\ vars_lowerbound[i] = Dec(0 - 1, 0)
                   /\ vars_upperbound[i] = Dec(1, 0)
    /\ Returned =>
         /\ \A i \in delta_start .. (a_start - 1) : Abs(solution.x[i]) <= 436332
         /\ \A i \in a_start .. (n_vars - 1) : Abs(solution.x[i]) <= 1000000
         /\ Abs(result[1]) <= 436332
         /\ Abs(result[2]) <= 1000000

C4_Witness ==
    /\ Returned
    /\ result[1] = 0 - 436332
    /\ result[2] = 100000

\* C5 as stated: the result is (delta_0, a_0) and N-1 pairs, the pairs are
\* predicted states of horizon steps t >= 2, and mpc_x / mpc_y have length
\* N-1 with matching steps.
C5_TrajectoryFromStep2 ==
    Returned =>
        /\ result[1] = solution.x[delta_start]
        /\ result[2] = solution.x[a_start]
        /\ Len(msgJson.mpc_x) = N - 1
        /\ Len(msgJson.mpc_y) = N - 1
        /\ \A i \in 1 .. (N - 1) : \E t \in 2 .. (N - 1) :
               /\ msgJson.mpc_x[i] = solution.x[x_start + t]
               /\ msgJson.mpc_y[i] = solution.x[y_start + t]

\* C5 amended: the result is (delta_0, a_0) followed by the N-1 pairs
\* (x_t, y_t) of the horizon steps t = 0..N-2, in order; mpc_x and mpc_y
\* have length N-1 and their i-th entries are the x and y of step i-1.
C5_TrajectoryFromStep0 ==
    Returned =>
        /\ Len(result) = 2 + 2 * (N - 1)
        /\ result[1] = solution.x[delta_start]
        /\ result[2] = solution.x[a_start]
        /\ Len(msgJson.mpc_x) = N - 1
        /\ Len(msgJson.mpc_y) = N - 1
        /\ \A i \in 1 .. (N - 1) :
               /\ result[2 * i + 1] = solution.x[x_start + i - 1]
               /\ result[2 * i + 2] = solution.x[y_start + i - 1]
               /\ msgJson.mpc_x[i] = solution.x[x_start + i - 1]
               /\ msgJson.mpc_y[i] = solution.x[y_start + i - 1]

C5_Witness ==
    /\ Returned
    /\ Len(msgJson.mpc_x) = N - 1
    /\ msgJson.mpc_x[1] # msgJson.mpc_y[1]
    /\ msgJson.mpc_x[1] # msgJson.mpc_x[2]

\* C6: the start offsets cut 0..n_vars-1 into six blocks of length N and
\* two of length N-1, in the order x, y, psi, v, cte, epsi, delta, a, and
\* every read of vars and of solution.x is inside the block of the
\* quantity it is meant to be.
C6_LayoutAndReads ==
    /\ n_vars = 6 * N + 2 * (N - 1)
    /\ x_start = 0
    /\ y_start = x_start + N
    /\ psi_start = y_start + N
    /\ v_start = psi_start + N
    /\ cte_start = v_start + N
    /\ epsi_start = cte_start + N
    /\ delta_start = epsi_start + N
    /\ a_start = delta_start + (N - 1)
    /\ a_start + (N - 1) = n_vars
    /\ pc = "solving" =>
         \A i \in 0 .. (n_vars - 1) : \E q \in Quantities :
             /\ i \in Block(q)
             /\ \A q2 \in Quantities \ {q} : i \notin Block(q2)
    /\ \A q \in Quantities :
         /\ reads[q] \subseteq 0 .. (n_vars - 1)
         /\ reads[q] \subseteq
              Start(q) .. (Start(q) + (IF q \in {"delta", "a"} THEN N - 1 ELSE N) - 1)

C6_Witness ==
    /\ Returned
    /\ n_vars - 1 \in reads["a"]
    /\ a_start - 1 \in reads["delta"]
    /\ y_start + N - 2 \in reads["y"]

\* C7: for each state component the row whose bounds are set to the input
\* component is the row in which FG_eval stores the step-0 variable of that
\* component; every other row has lower = upper = 0; a successful solution
\* has its step-0 state equal to the input state.
C7_InitialPin ==
    /\ InSolve =>
         LET rows == [k \in 1 .. 6 |-> PinBoundWrites(state)[k].i] IN
           /\ \A k \in 1 .. 6 :
                /\ constraints_lowerbound[rows[k]] = state[Comps[k]]
                /\ constraints_upperbound[rows[k]] = state[Comps[k]]
                /\ Returned => fg[rows[k] + 1] = PinTag(Comps[k])
           /\ \A r \in RowIdx \ { rows[k] : k \in 1 .. 6 } :
                constraints_lowerbound[r] = 0 /\ constraints_upperbound[r] = 0
    /\ (Returned /\ solution.status = "success") =>
         \A k \in 1 .. 6 : solution.x[Start(Comps[k])] = state[Comps[k]]

C7_Witness ==
    /\ Returned
    /\ solution.status = "success"
    /\ \A k \in 1 .. 6 : state[Comps[k]] # 0
    /\ solution.x[cte_start] = state.cte

\* C8: the compensator's x0, y0, psi0, v0 are one step of the optimizer's
\* kinematic update from (x, y, psi) = (0, 0, 0) with the previous controls
\* over dt_lat.
C8_CompensatorIsOneStep ==
    InSolve =>
        /\ state.x = KinX(0, tel.v, 0, dt_lat)
        /\ state.y = KinY(0, tel.v, 0, dt_lat)
        /\ state.psi = KinPsi(0, tel.v, delta, dt_lat)
        /\ state.v = KinV(tel.v, tel.throttle, dt_lat)

\* C9: at most one solve is active; a reply is built from the solve of its
\* own cycle; every telemetry event whose handling has ended got exactly one
\* "steer" reply; a "42" message without data got exactly one "manual"
\* reply.
C9_OneReplyPerEvent ==
    /\ active <= 1
    /\ Returned =>
         /\ solution.for = state
         /\ msgJson.steering_angle = 0 - solution.x[delta_start]
    /\ (pc \in {"idle", "aborted"} /\ cur = "telemetry") => wire = <<"steer">>
    /\ (pc = "idle" /\ cur = "null") => wire = <<"manual">>
    /\ (cur # "telemetry") => (active = 0 /\ pc = "idle")

====
